---- MODULE Spec2Model ----
(***************************************************************************)
(* BleService of temp-scanner (src/src/services/ble.service.ts).           *)
(*                                                                         *)
(* The service runs on one JavaScript thread: every action below is one    *)
(* run-to-completion task (an API call up to its first await, a timer or   *)
(* listener callback, or the continuation of a resolved transport call).   *)
(* Calls to the transport (BleClient) wait in one FIFO queue, opQueue; the *)
(* head call completes, with success or failure, in the action Resolve,    *)
(* which also runs the continuation that awaited it.  Writes to the        *)
(* key-value store (Preferences.set) wait in pendingSaves.                 *)
(***************************************************************************)
EXTENDS Integers, Sequences, FiniteSets, TLC

\* ---------------------------------------------------------------- bounds
Devices == {"D1", "D2"}
\* sequence numbers (measureCount) a sensor sends are 1..MaxSeq
MaxSeq == 2
\* measurements kept in a record's sensorData within the model
MaxData == 2
\* command writes waiting in the transport queue at once
MaxCommands == 1
\* connectToSensor calls in progress per identity, and disconnect calls in progress
MaxConnects == 1
MaxDisconnects == 1
\* stopLEScan calls of stopScan() waiting in the transport queue at once
MaxStops == 1
\* scan loops (timer chains) alive at once
MaxLoops == 2
\* Preferences.set calls in flight at once
MaxSaves == 1
\* distinct clock readings
MaxTime == 2

\* -------------------------------------------------------------- constants
REQUEST_DATA == 1
START_COLLECTING == 3
STOP_COLLECTING == 4
\* Capacitor.getPlatform(): the native build (the web build never scans)
Platform == "android"

NoDevice == "none"
NoRecord == [status |-> "absent"]
\* Preferences.get gives { value: null }: nothing was ever stored under the key
NoValue == [d \in {"D1", "D2"} |-> -1]
\* a notification payload that is not JSON
Malformed == [text |-> "not-json"]
ParseError == [error |-> "SyntaxError"]
Null == 0
Stale == -1
TimerIds == 1..MaxLoops
SeqNums == 1..MaxSeq
\* the sensors that accept a connection, and those in range of the ingest sessions
Connectable == {"D1"}
InRange == {"D1"}
\* the identities a measurement may name as its producer
Producers == {"D1"}
\* a decoded data frame (the fields the service reads)
Payloads == [producedBy : Producers, measureCount : SeqNums]
\* lastKnownId values a caller may pass to requestData
CallerIds == 0..MaxSeq
\* result.rssi of an advertisement: absent, or a signal strength in dBm
NoRssi == 1
DefaultRssi == -100
Rssis == {NoRssi, -60}
\* the clock readings (new Date()) at which advertisements arrive
Times == 1..MaxTime
FirstTime == 1

VARIABLES
    deviceMap,          \* deviceMap: identity -> TempSensor, or NoRecord
    deviceSettingsMap,  \* deviceSettingsMap: identity -> lastKnownMeasureCount (0: no entry)
    durable,            \* the value stored under SETTINGS_STORAGE_KEY, or NoValue
    pendingSaves,       \* Preferences.set calls not yet applied, oldest first
    loadPending,        \* the constructor's Preferences.get has not resolved yet
    isScanning,
    scanTimeout,        \* Null, a live timer id, or Stale (the handle of a fired timer)
    timers,             \* pending setTimeout callbacks: id -> "none" | "burst" | "gap"
    connectedDeviceId,  \* connectedDeviceIdSubject.value
    opQueue,            \* transport calls not yet completed, oldest first
    listening,          \* the transport's LE scan is running (onScanResult may fire)
    link,               \* identity -> the transport holds a connection to it
    subs,               \* identity -> the characteristics with notifications on
    maxDelivered,       \* history: highest measureCount ever delivered per identity
    discardedAt,        \* history: list length when a malformed frame was last dropped, or -1
    destroyed           \* history: ngOnDestroy has run on this service instance

vars == <<deviceMap, deviceSettingsMap, durable, pendingSaves, loadPending, isScanning,
          scanTimeout, timers, connectedDeviceId, opQueue, listening, link, subs,
          maxDelivered, discardedAt, destroyed>>

storeVars == <<deviceSettingsMap, durable, pendingSaves, loadPending>>
scanVars == <<isScanning, scanTimeout, timers>>
radioVars == <<listening, link, subs>>
histVars == <<maxDelivered, discardedAt, destroyed>>

\* ---------------------------------------------------------------- helpers
Max(a, b) == IF a >= b THEN a ELSE b

\* a transport call waiting in BleClient's queue; cont names the code that awaits it
Op(name, d, cont, frame) == [op |-> name, dev |-> d, cont |-> cont, frame |-> frame]

\* result.rssi ?? -100
Rssi(rssi) == IF rssi = NoRssi THEN DefaultRssi ELSE rssi

\* a record that is created in the middle of a connection attempt
NewSensorProcessing(count, rssi, now) ==
    [status |-> "processing", sensorData |-> <<>>, lastKnownMeasureCount |-> count,
     isCollecting |-> "undefined", rssi |-> Rssi(rssi), lastUpdate |-> now]

NewSensor(count, rssi, now) ==
    [status |-> "idle", sensorData |-> <<>>, lastKnownMeasureCount |-> count,
     isCollecting |-> "undefined", rssi |-> Rssi(rssi), lastUpdate |-> now]

\* view.setUint8(0, opcode); view.setUint32(1, lastKnownId, true): the four low
\* bytes of lastKnownId, least significant first
EncodeRequestData(lastKnownId) ==
    <<REQUEST_DATA, lastKnownId % 256, (lastKnownId \div 256) % 256,
      (lastKnownId \div 65536) % 256, (lastKnownId \div 16777216) % 256>>

EncodeCommand(opcode) == <<opcode>>

\* the sequence number a request-data-since frame carries
FrameParam(frame) ==
    frame[2] + 256 * frame[3] + 65536 * frame[4] + 16777216 * frame[5]

\* deviceSettingsMap.get(id) || { lastKnownMeasureCount: 0 }, read from the stored value
DurableGet(d) == IF durable = NoValue THEN 0 ELSE durable[d]

\* the calls in the transport queue whose continuation is one of conts
InQueue(conts) == Cardinality({i \in 1..Len(opQueue) : opQueue[i].cont \in conts})

CommandConts == {"command"}
StopConts == {"stopScan"}
DisconnectConts == {"disconnect.stopData", "disconnect.stopStatus", "disconnect.disconnect"}
IsDisconnect(o) == o.cont \in DisconnectConts
ConnectConts ==
    {"connect.stopScan", "connect.connect", "connect.read", "connect.syncClock",
     "connect.subscribeData", "connect.subscribeStatus"}
\* the connectToSensor(d) calls that have not returned yet
Connecting(d) == {i \in 1..Len(opQueue) : opQueue[i].cont \in ConnectConts /\ opQueue[i].dev = d}

LoopCount ==
    Cardinality({i \in TimerIds : timers[i] # "none"})
    + Cardinality({i \in 1..Len(opQueue) : opQueue[i].cont \in {"scanLoop", "burst"}})

\* room for the scan loop that startScan() would begin
CanStartLoop == isScanning \/ LoopCount < MaxLoops

FreeTimer == CHOOSE i \in TimerIds : timers[i] = "none" /\ \A j \in TimerIds : timers[j] = "none" => i <= j

updateDeviceStatus(dm, d, status) ==
    IF dm[d] # NoRecord THEN [dm EXCEPT ![d].status = status] ELSE dm

updateSensorCollectingStatus(dm, d, isCollecting) ==
    IF dm[d] # NoRecord
    THEN [dm EXCEPT ![d].isCollecting = IF isCollecting THEN "true" ELSE "false"]
    ELSE dm

\* a startScan() that does not look at isScanning
startScanQueueAlways(q) == Append(q, Op("requestLEScan", NoDevice, "scanLoop", <<>>))

\* startScan(), run on queue q: begins a scan loop unless one is already running
startScanQueue(q) ==
    IF isScanning \/ Platform = "web"
    THEN q
    ELSE Append(q, Op("requestLEScan", NoDevice, "scanLoop", <<>>))

\* a startScan() that leaves isScanning as it finds it
startScanFlagKeep == isScanning

startScanFlag == IF Platform = "web" THEN isScanning ELSE TRUE

getScanningStatus == isScanning

\* ------------------------------------------------------------------- Init
Init ==
    /\ deviceMap = [d \in Devices |-> NoRecord]
    /\ deviceSettingsMap = [d \in Devices |-> 0]
    /\ durable = NoValue
    /\ pendingSaves = <<>>
    /\ loadPending = TRUE
    /\ isScanning = FALSE
    /\ scanTimeout = Null
    /\ timers = [i \in TimerIds |-> "none"]
    /\ connectedDeviceId = NoDevice
    /\ opQueue = <<>>
    /\ listening = FALSE
    /\ link = [d \in Devices |-> FALSE]
    /\ subs = [d \in Devices |-> {}]
    /\ maxDelivered = [d \in Devices |-> 0]
    /\ discardedAt = [d \in Devices |-> -1]
    /\ destroyed = FALSE

\* ---------------------------------------------------------------- storage
\* loadDeviceSettings, after its await: the stored map replaces the one in memory
LoadDeviceSettings ==
    /\ loadPending
    /\ loadPending' = FALSE
    /\ deviceSettingsMap' = IF durable # NoValue THEN durable ELSE deviceSettingsMap
    /\ UNCHANGED <<deviceMap, durable, pendingSaves, scanVars, connectedDeviceId, opQueue,
                   radioVars, histVars>>

\* Preferences.set of saveDeviceSettings takes effect; the store serves its calls
\* in the order they were made, the constructor's get first
SaveComplete ==
    /\ pendingSaves # <<>>
    /\ ~loadPending
    /\ durable' = Head(pendingSaves)
    /\ pendingSaves' = Tail(pendingSaves)
    /\ UNCHANGED <<deviceMap, deviceSettingsMap, loadPending, scanVars, connectedDeviceId,
                   opQueue, radioVars, histVars>>

\* ------------------------------------------------------------------- scan
StartScan ==
    /\ CanStartLoop
    /\ isScanning' = startScanFlag
    /\ opQueue' = startScanQueue(opQueue)
    /\ UNCHANGED <<deviceMap, storeVars, scanTimeout, timers, connectedDeviceId, radioVars,
                   histVars>>

\* the part of stopScan() before its await, on queue q awaited by cont
stopScanTimers == IF scanTimeout \in TimerIds THEN [timers EXCEPT ![scanTimeout] = "none"] ELSE timers

StopScan ==
    /\ InQueue(StopConts) < MaxStops
    /\ IF ~isScanning
       THEN UNCHANGED <<scanVars, opQueue>>
       ELSE /\ timers' = stopScanTimers
            /\ scanTimeout' = Null
            /\ isScanning' = FALSE
            /\ opQueue' = Append(opQueue, Op("stopLEScan", NoDevice, "stopScan", <<>>))
    /\ UNCHANGED <<deviceMap, storeVars, connectedDeviceId, radioVars, histVars>>

\* a setTimeout callback of scanLoop runs
TimerFire(i) ==
    /\ timers[i] # "none"
    /\ timers' = [timers EXCEPT ![i] = "none"]
    /\ scanTimeout' = IF scanTimeout = i THEN Stale ELSE scanTimeout
    /\ IF timers[i] = "burst"
       THEN opQueue' = Append(opQueue, Op("stopLEScan", NoDevice, "burst", <<>>))
       ELSE \* scanLoop(): if (!this.isScanning) return
            opQueue' = IF isScanning
                       THEN Append(opQueue, Op("requestLEScan", NoDevice, "scanLoop", <<>>))
                       ELSE opQueue
    /\ UNCHANGED <<deviceMap, storeVars, isScanning, connectedDeviceId, radioVars, histVars>>

\* an advertisement of d with signal strength rssi reaches onScanResult at time now
OnScanResult(d, rssi, now) ==
    /\ listening
    /\ LET count == deviceSettingsMap[d]
       IN  deviceMap' = IF deviceMap[d] = NoRecord
                        THEN [deviceMap EXCEPT ![d] = NewSensor(count, rssi, now)]
                        ELSE [deviceMap EXCEPT ![d].rssi = Rssi(rssi),
                                               ![d].lastUpdate = now,
                                               ![d].lastKnownMeasureCount = count]
    /\ UNCHANGED <<storeVars, scanVars, connectedDeviceId, opQueue, radioVars, histVars>>

\* ------------------------------------------------------------- connection
\* an onDisconnect that leaves the status as it finds it
onDisconnectMapKeepStatus(dm, d) == updateSensorCollectingStatus(dm, d, FALSE)

\* onDisconnect(deviceId) on the registry: status idle, collecting flag off
onDisconnectMap(dm, d) ==
    updateSensorCollectingStatus(updateDeviceStatus(dm, d, "idle"), d, FALSE)

\* onDisconnect(deviceId), with dm and q the registry and queue it finds
OnDisconnect(d, dm, q) ==
    /\ connectedDeviceId' = NoDevice
    /\ deviceMap' = onDisconnectMap(dm, d)
    /\ isScanning' = startScanFlag
    /\ opQueue' = startScanQueue(q)

\* the catch block of connectToSensor
ConnectFailed(d, q) ==
    /\ CanStartLoop
    /\ OnDisconnect(d, updateDeviceStatus(deviceMap, d, "failed"), q)

\* a guard that forgets the published connection
connectRejectedUnknownOnly(d) == deviceMap[d] = NoRecord

\* the guard of connectToSensor: a connection is published, or the sensor is unknown
connectRejected(d) == connectedDeviceId # NoDevice \/ deviceMap[d] = NoRecord

\* connectToSensor(sensorId) up to its first await
ConnectToSensor(d) ==
    /\ Cardinality(Connecting(d)) < MaxConnects
    /\ IF connectRejected(d)
       THEN UNCHANGED vars
       ELSE /\ deviceMap' = updateDeviceStatus(deviceMap, d, "processing")
            /\ IF isScanning
               THEN /\ timers' = stopScanTimers
                    /\ scanTimeout' = Null
                    /\ isScanning' = FALSE
                    /\ opQueue' = Append(opQueue, Op("stopLEScan", d, "connect.stopScan", <<>>))
               ELSE /\ opQueue' = Append(opQueue, Op("connect", d, "connect.connect", <<>>))
                    /\ UNCHANGED scanVars
            /\ UNCHANGED <<storeVars, connectedDeviceId, radioVars, histVars>>

\* disconnect() up to its first await
Disconnect ==
    /\ InQueue(DisconnectConts) < MaxDisconnects
    /\ IF connectedDeviceId = NoDevice
       THEN UNCHANGED opQueue
       ELSE opQueue' = Append(opQueue,
                Op("stopNotifications", connectedDeviceId, "disconnect.stopData", <<>>))
    /\ UNCHANGED <<deviceMap, storeVars, scanVars, connectedDeviceId, radioVars, histVars>>

\* the sensor or the radio drops the link; the transport calls the disconnect callback
PeerDisconnect(d) ==
    /\ link[d]
    /\ CanStartLoop
    /\ link' = [link EXCEPT ![d] = FALSE]
    /\ subs' = [subs EXCEPT ![d] = {}]
    /\ OnDisconnect(d, deviceMap, opQueue)
    /\ UNCHANGED <<storeVars, scanTimeout, timers, listening, histVars>>

\* ngOnDestroy(): stopScan() and, with an identity published, disconnect(), each
\* up to its first await
NgOnDestroy ==
    /\ ~destroyed
    /\ InQueue(StopConts) < MaxStops
    /\ InQueue(DisconnectConts) < MaxDisconnects
    /\ destroyed' = TRUE
    /\ LET stopped == IF isScanning
                      THEN Append(opQueue, Op("stopLEScan", NoDevice, "stopScan", <<>>))
                      ELSE opQueue
       IN  opQueue' = IF connectedDeviceId # NoDevice
                      THEN Append(stopped, Op("stopNotifications", connectedDeviceId,
                                              "disconnect.stopData", <<>>))
                      ELSE stopped
    /\ IF isScanning
       THEN /\ timers' = stopScanTimers
            /\ scanTimeout' = Null
            /\ isScanning' = FALSE
       ELSE UNCHANGED scanVars
    /\ UNCHANGED <<deviceMap, storeVars, connectedDeviceId, radioVars, maxDelivered,
                   discardedAt>>

\* --------------------------------------------------------------- commands
RequestData(d, lastKnownId) ==
    /\ InQueue(CommandConts) < MaxCommands
    /\ opQueue' = Append(opQueue, Op("write", d, "command", EncodeRequestData(lastKnownId)))
    /\ UNCHANGED <<deviceMap, storeVars, scanVars, connectedDeviceId, radioVars, histVars>>

SendStartCommand(d) ==
    /\ InQueue(CommandConts) < MaxCommands
    /\ opQueue' = Append(opQueue, Op("write", d, "command", EncodeCommand(START_COLLECTING)))
    /\ UNCHANGED <<deviceMap, storeVars, scanVars, connectedDeviceId, radioVars, histVars>>

SendStopCommand(d) ==
    /\ InQueue(CommandConts) < MaxCommands
    /\ opQueue' = Append(opQueue, Op("write", d, "command", EncodeCommand(STOP_COLLECTING)))
    /\ UNCHANGED <<deviceMap, storeVars, scanVars, connectedDeviceId, radioVars, histVars>>

\* ---------------------------------------------------------- notifications
\* the data notification callback's work on the record, for a decoded frame
Ingest(sensor, data) ==
    [sensor EXCEPT !.sensorData = Append(@, data),
                   !.lastKnownMeasureCount = Max(@, data.measureCount)]

\* a parser that gives an empty measurement for text it cannot read
JSONparseLenient(payload) ==
    IF payload = Malformed THEN [producedBy |-> "", measureCount |-> 0] ELSE payload

\* JSON.parse of the notification's text: the frame, or the SyntaxError it throws
JSONparse(payload) == IF payload = Malformed THEN ParseError ELSE payload

\* the data notification callback registered by connectToSensor(d)
DataNotification(d, payload) ==
    /\ link[d]
    /\ "data" \in subs[d]
    /\ LET data == JSONparse(payload)
       IN  IF data = ParseError
           THEN \* catch: "Failed to parse incoming JSON", logged
                /\ discardedAt' = [discardedAt EXCEPT ![d] = Len(deviceMap[d].sensorData)]
                /\ UNCHANGED <<deviceMap, storeVars, maxDelivered>>
           ELSE /\ Len(deviceMap[d].sensorData) < MaxData
                /\ Len(pendingSaves) < MaxSaves
                /\ deviceMap' = [deviceMap EXCEPT ![d] = Ingest(@, data)]
                /\ deviceSettingsMap' =
                       [deviceSettingsMap EXCEPT ![d] = deviceMap'[d].lastKnownMeasureCount]
                /\ pendingSaves' = Append(pendingSaves, deviceSettingsMap')
                /\ maxDelivered' = [maxDelivered EXCEPT ![d] = Max(@, data.measureCount)]
                /\ UNCHANGED <<durable, loadPending, discardedAt>>
    /\ UNCHANGED <<scanVars, connectedDeviceId, opQueue, radioVars, destroyed>>

\* the status notification callback registered by connectToSensor(d)
StatusNotification(d, collecting) ==
    /\ link[d]
    /\ "status" \in subs[d]
    /\ deviceMap' = updateSensorCollectingStatus(deviceMap, d, collecting)
    /\ UNCHANGED <<storeVars, scanVars, connectedDeviceId, opQueue, radioVars, histVars>>

\* ------------------------------------------------- transport completions
\* what the head call needs in order to succeed
Feasible(o) ==
    /\ o.op \in {"read", "write", "startNotifications", "stopNotifications"} => link[o.dev]
    /\ o.op = "connect" => o.dev \in Connectable

\* requestLEScan awaited by scanLoop
ResolveScanLoop(ok, rest) ==
    /\ IF ok
       THEN /\ listening' = TRUE
            /\ timers' = [timers EXCEPT ![FreeTimer] = "burst"]
            /\ scanTimeout' = FreeTimer
            /\ opQueue' = rest
            /\ UNCHANGED isScanning
       ELSE \* catch: this.stopScan()
            /\ IF ~isScanning
               THEN /\ opQueue' = rest
                    /\ UNCHANGED scanVars
               ELSE /\ timers' = stopScanTimers
                    /\ scanTimeout' = Null
                    /\ isScanning' = FALSE
                    /\ opQueue' = Append(rest, Op("stopLEScan", NoDevice, "stopScan", <<>>))
            /\ UNCHANGED listening
    /\ UNCHANGED <<deviceMap, storeVars, connectedDeviceId, link, subs, histVars>>

\* stopLEScan awaited by the burst timer's callback
ResolveBurst(ok, rest) ==
    /\ opQueue' = rest
    /\ IF ok
       THEN /\ listening' = FALSE
            /\ timers' = [timers EXCEPT ![FreeTimer] = "gap"]
            /\ scanTimeout' = FreeTimer
       ELSE UNCHANGED <<listening, timers, scanTimeout>>
    /\ UNCHANGED <<deviceMap, storeVars, isScanning, connectedDeviceId, link, subs, histVars>>

\* stopLEScan awaited by stopScan()
ResolveStopScan(ok, rest) ==
    /\ opQueue' = rest
    /\ listening' = IF ok THEN FALSE ELSE listening
    /\ UNCHANGED <<deviceMap, storeVars, scanVars, connectedDeviceId, link, subs, histVars>>

\* connectToSensor after "await this.stopScan()"
ResolveConnectStopScan(d, ok, rest) ==
    /\ listening' = IF ok THEN FALSE ELSE listening
    /\ IF ok
       THEN /\ opQueue' = Append(rest, Op("connect", d, "connect.connect", <<>>))
            /\ UNCHANGED <<deviceMap, isScanning, connectedDeviceId>>
       ELSE ConnectFailed(d, rest)
    /\ UNCHANGED <<storeVars, scanTimeout, timers, link, subs, histVars>>

\* connectToSensor after "await BleClient.connect(...)"
ResolveConnect(d, ok, rest) ==
    /\ IF ok
       THEN /\ link' = [link EXCEPT ![d] = TRUE]
            /\ connectedDeviceId' = d
            /\ deviceMap' = [updateDeviceStatus(deviceMap, d, "connected")
                                EXCEPT ![d].sensorData = <<>>]
            /\ discardedAt' = [discardedAt EXCEPT ![d] = -1]
            /\ opQueue' = Append(rest, Op("read", d, "connect.read", <<>>))
            /\ UNCHANGED isScanning
       ELSE /\ ConnectFailed(d, rest)
            /\ UNCHANGED <<link, discardedAt>>
    /\ UNCHANGED <<storeVars, scanTimeout, timers, listening, subs, maxDelivered, destroyed>>

\* connectToSensor after the status read: the collecting flag, then syncClock
ResolveRead(d, ok, rest) ==
    /\ IF ok
       THEN /\ \E collecting \in BOOLEAN :
                  deviceMap' = updateSensorCollectingStatus(deviceMap, d, collecting)
            /\ opQueue' = Append(rest, Op("write", d, "connect.syncClock", <<>>))
            /\ UNCHANGED <<isScanning, connectedDeviceId>>
       ELSE ConnectFailed(d, rest)
    /\ UNCHANGED <<storeVars, scanTimeout, timers, radioVars, histVars>>

\* connectToSensor after syncClock, whose failure is only logged
ResolveSyncClock(d, ok, rest) ==
    /\ opQueue' = Append(rest, Op("startNotifications", d, "connect.subscribeData", <<>>))
    /\ UNCHANGED <<deviceMap, storeVars, scanVars, connectedDeviceId, radioVars, histVars>>

\* connectToSensor after subscribing to the data characteristic
ResolveSubscribeData(d, ok, rest) ==
    /\ IF ok
       THEN /\ subs' = [subs EXCEPT ![d] = @ \cup {"data"}]
            /\ opQueue' = Append(rest, Op("startNotifications", d, "connect.subscribeStatus", <<>>))
            /\ UNCHANGED <<deviceMap, isScanning, connectedDeviceId>>
       ELSE /\ ConnectFailed(d, rest)
            /\ UNCHANGED subs
    /\ UNCHANGED <<storeVars, scanTimeout, timers, listening, link, histVars>>

\* connectToSensor after subscribing to the status characteristic
ResolveSubscribeStatus(d, ok, rest) ==
    /\ IF ok
       THEN /\ subs' = [subs EXCEPT ![d] = @ \cup {"status"}]
            /\ opQueue' = rest
            /\ UNCHANGED <<deviceMap, isScanning, connectedDeviceId>>
       ELSE /\ ConnectFailed(d, rest)
            /\ UNCHANGED subs
    /\ UNCHANGED <<storeVars, scanTimeout, timers, listening, link, histVars>>

\* disconnect() after stopNotifications of the data, then of the status characteristic
ResolveStopNotifications(d, char, next, ok, rest) ==
    /\ IF ok
       THEN /\ subs' = [subs EXCEPT ![d] = @ \ {char}]
            /\ opQueue' = Append(rest, next)
       ELSE \* catch: logged, nothing more is called
            /\ opQueue' = rest
            /\ UNCHANGED subs
    /\ UNCHANGED <<deviceMap, storeVars, scanVars, connectedDeviceId, listening, link, histVars>>

\* disconnect() after BleClient.disconnect: a dropped link calls the disconnect callback
ResolveDisconnect(d, ok, rest) ==
    /\ IF ok /\ link[d]
       THEN /\ CanStartLoop
            /\ link' = [link EXCEPT ![d] = FALSE]
            /\ subs' = [subs EXCEPT ![d] = {}]
            /\ OnDisconnect(d, deviceMap, rest)
       ELSE /\ opQueue' = rest
            /\ UNCHANGED <<deviceMap, isScanning, connectedDeviceId, link, subs>>
    /\ UNCHANGED <<storeVars, scanTimeout, timers, listening, histVars>>

\* requestData / sendStartCommand / sendStopCommand after the write
ResolveCommand(ok, rest) ==
    /\ opQueue' = rest
    /\ UNCHANGED <<deviceMap, storeVars, scanVars, connectedDeviceId, radioVars, histVars>>

\* the head call of the transport queue completes and its continuation runs
Resolve(ok) ==
    /\ opQueue # <<>>
    /\ LET o == Head(opQueue)
           rest == Tail(opQueue)
       IN  /\ ok => Feasible(o)
           /\ CASE o.cont = "scanLoop" -> ResolveScanLoop(ok, rest)
                [] o.cont = "burst" -> ResolveBurst(ok, rest)
                [] o.cont = "stopScan" -> ResolveStopScan(ok, rest)
                [] o.cont = "connect.stopScan" -> ResolveConnectStopScan(o.dev, ok, rest)
                [] o.cont = "connect.connect" -> ResolveConnect(o.dev, ok, rest)
                [] o.cont = "connect.read" -> ResolveRead(o.dev, ok, rest)
                [] o.cont = "connect.syncClock" -> ResolveSyncClock(o.dev, ok, rest)
                [] o.cont = "connect.subscribeData" -> ResolveSubscribeData(o.dev, ok, rest)
                [] o.cont = "connect.subscribeStatus" -> ResolveSubscribeStatus(o.dev, ok, rest)
                [] o.cont = "disconnect.stopData" ->
                       ResolveStopNotifications(o.dev, "data",
                           Op("stopNotifications", o.dev, "disconnect.stopStatus", <<>>), ok, rest)
                [] o.cont = "disconnect.stopStatus" ->
                       ResolveStopNotifications(o.dev, "status",
                           Op("disconnect", o.dev, "disconnect.disconnect", <<>>), ok, rest)
                [] o.cont = "disconnect.disconnect" -> ResolveDisconnect(o.dev, ok, rest)
                [] o.cont = "command" -> ResolveCommand(ok, rest)

\* ---------------------------------------------------------------- restart
\* the app process ends and a new one is constructed; only the stored value survives
Restart ==
    /\ pendingSaves = <<>>
    /\ deviceMap' = [d \in Devices |-> NoRecord]
    /\ deviceSettingsMap' = [d \in Devices |-> 0]
    /\ loadPending' = TRUE
    /\ isScanning' = FALSE
    /\ scanTimeout' = Null
    /\ timers' = [i \in TimerIds |-> "none"]
    /\ connectedDeviceId' = NoDevice
    /\ opQueue' = <<>>
    /\ listening' = FALSE
    /\ link' = [d \in Devices |-> FALSE]
    /\ subs' = [d \in Devices |-> {}]
    /\ discardedAt' = [d \in Devices |-> -1]
    /\ destroyed' = FALSE
    /\ UNCHANGED <<durable, pendingSaves, maxDelivered>>

\* a radio on which a call fails only when it cannot succeed
ResolveReliable ==
    /\ opQueue # <<>>
    /\ Resolve(Feasible(Head(opQueue)))

\* -------------------------------------------------------- specifications
\* every event the service can meet
Next ==
    \/ LoadDeviceSettings
    \/ SaveComplete
    \/ StartScan
    \/ StopScan
    \/ \E i \in TimerIds : TimerFire(i)
    \/ \E d \in Devices, r \in Rssis, t \in Times : OnScanResult(d, r, t)
    \/ \E d \in Devices : ConnectToSensor(d)
    \/ Disconnect
    \/ \E d \in Devices : PeerDisconnect(d)
    \/ \E d \in Devices, n \in CallerIds : RequestData(d, n)
    \/ \E d \in Devices : SendStartCommand(d)
    \/ \E d \in Devices : SendStopCommand(d)
    \/ \E d \in Devices, p \in Payloads \cup {Malformed} : DataNotification(d, p)
    \/ \E d \in Devices, c \in BOOLEAN : StatusNotification(d, c)
    \/ \E ok \in BOOLEAN : Resolve(ok)
    \/ NgOnDestroy
    \/ Restart

Spec == Init /\ [][Next]_vars

\* The connection and scan machinery: both sensors advertise, the user scans,
\* connects and disconnects at will, any transport call may fail; no
\* measurements are sent, the process is not restarted, and advertisements
\* carry no signal strength and arrive at one clock reading.
NextLink ==
    \/ StartScan
    \/ StopScan
    \/ \E i \in TimerIds : TimerFire(i)
    \/ \E d \in Devices : OnScanResult(d, NoRssi, FirstTime)
    \/ \E d \in Devices : ConnectToSensor(d)
    \/ Disconnect
    \/ \E d \in Devices : PeerDisconnect(d)
    \/ \E d \in Devices, c \in BOOLEAN : StatusNotification(d, c)
    \/ \E ok \in BOOLEAN : Resolve(ok)

SpecLink == Init /\ [][NextLink]_vars

\* Ingest and the watermark store: the sensor in range sends measurements and
\* drops the link, the caller requests data, the process is restarted between
\* sessions; the radio is reliable and a session ends within one scan burst.
NextIngest ==
    \/ LoadDeviceSettings
    \/ SaveComplete
    \/ StartScan
    \/ \E d \in InRange, r \in Rssis, t \in Times : OnScanResult(d, r, t)
    \/ \E d \in InRange : ConnectToSensor(d)
    \/ \E d \in InRange : PeerDisconnect(d)
    \/ \E d \in InRange, n \in CallerIds : RequestData(d, n)
    \/ \E d \in InRange : SendStartCommand(d)
    \/ \E d \in InRange : SendStopCommand(d)
    \/ \E d \in InRange, p \in Payloads \cup {Malformed} : DataNotification(d, p)
    \/ ResolveReliable
    \/ Restart

SpecIngest == Init /\ [][NextIngest]_vars

\* Recovery: one sensor in range, the user starts scanning and connects but
\* never stops or disconnects; any transport call may fail, the peer may drop
\* the link and may send a frame that is not JSON; advertisements are as in
\* SpecLink.  Every transport call completes and every timer that is set fires.
NextRecover ==
    \/ StartScan
    \/ \E i \in TimerIds : TimerFire(i)
    \/ \E d \in InRange : OnScanResult(d, NoRssi, FirstTime)
    \/ \E d \in InRange : ConnectToSensor(d)
    \/ \E d \in InRange : PeerDisconnect(d)
    \/ \E d \in InRange : DataNotification(d, Malformed)
    \/ \E ok \in BOOLEAN : Resolve(ok)

SpecRecover ==
    /\ Init
    /\ [][NextRecover]_vars
    /\ WF_vars(\E ok \in BOOLEAN : Resolve(ok))
    /\ WF_vars(\E i \in TimerIds : TimerFire(i))

\* Teardown: one sensor in range, a reliable radio; the application scans and
\* connects, then destroys the service and calls it no more.  Transport calls
\* complete and timers fire as before, also after the teardown.
NextDestroy ==
    \/ ~destroyed /\ StartScan
    \/ \E i \in TimerIds : TimerFire(i)
    \/ \E d \in InRange : OnScanResult(d, NoRssi, FirstTime)
    \/ \E d \in InRange : ~destroyed /\ ConnectToSensor(d)
    \/ ResolveReliable
    \/ NgOnDestroy

SpecDestroy ==
    /\ Init
    /\ [][NextDestroy]_vars
    /\ WF_vars(ResolveReliable)
    /\ WF_vars(\E i \in TimerIds : TimerFire(i))
\* ------------------------------------------------------------------ claims
\* the record of d exists before and after the step
Known(d) == deviceMap[d] # NoRecord /\ deviceMap'[d] # NoRecord

\* the connection to d is Active: published, linked, both subscriptions on
Active(d) ==
    /\ connectedDeviceId = d
    /\ link[d]
    /\ subs[d] = {"data", "status"}
    /\ deviceMap[d].status = "connected"

Key(m) == <<m.producedBy, m.measureCount>>

\* C1: once no persistence write is pending, the stored watermark of every
\* identity that was ever sent a measurement is the highest sequence number
\* ever delivered to it.
C1_PersistedWatermarkIsMaxDelivered ==
    pendingSaves = <<>> =>
        \A d \in Devices : maxDelivered[d] > 0 => DurableGet(d) = maxDelivered[d]

\* C2: a record's measurement list never holds two entries with the same
\* (producing identity, sequence number) key.
C2_NoDuplicateKeys ==
    \A d \in Devices :
        deviceMap[d] # NoRecord =>
            \A i, j \in 1..Len(deviceMap[d].sensorData) :
                i < j => Key(deviceMap[d].sensorData[i]) # Key(deviceMap[d].sensorData[j])

\* C3: a decoded measurement whose sequence number is not above the watermark
\* is discarded, leaving the record as it was; any other is appended and the
\* watermark becomes its sequence number.
C3_DiscardOrAppend ==
    [][\A d \in Devices, p \in Payloads :
          DataNotification(d, p) =>
              IF p.measureCount <= deviceMap[d].lastKnownMeasureCount
              THEN deviceMap'[d] = deviceMap[d]
              ELSE /\ deviceMap'[d].sensorData = Append(deviceMap[d].sensorData, p)
                   /\ deviceMap'[d].lastKnownMeasureCount = p.measureCount]_vars

\* C4: over every event (settings load, advertisement, connect, notification,
\* save, disconnect) the watermark of an identity never decreases, neither in
\* its record nor in the stored value, which a restart carries over.
C4_WatermarkMonotonic ==
    [][\A d \in Devices :
          /\ Known(d) =>
                deviceMap'[d].lastKnownMeasureCount >= deviceMap[d].lastKnownMeasureCount
          /\ DurableGet(d)' >= DurableGet(d)]_vars

\* C5: at most one identity is connecting or connected at any time: a connect
\* request made while another identity is connecting or connected starts nothing.
C5_AtMostOneNonIdle ==
    Cardinality({d \in Devices : Connecting(d) # {} \/ connectedDeviceId = d}) <= 1

\* C6: a connect request for b while the connection to another identity a is
\* Active changes nothing: the connected identity, every record, the scanning
\* state, the timers and the transport queue stay as they were.
C6_RejectedConnectChangesNothing ==
    [][\A a, b \in Devices :
          (a # b /\ Active(a) /\ ConnectToSensor(b)) =>
              /\ connectedDeviceId' = a
              /\ deviceMap' = deviceMap
              /\ isScanning' = isScanning
              /\ <<scanTimeout, timers>>' = <<scanTimeout, timers>>
              /\ opQueue' = opQueue
              /\ radioVars' = radioVars]_vars

\* D1 is Active, D2 is known and a connect request for it can be made (and,
\* being refused, leaves this very state)
C6_Witness ==
    /\ Active("D1")
    /\ deviceMap["D2"] # NoRecord
    /\ deviceMap["D2"].status = "idle"
    /\ Cardinality(Connecting("D2")) < MaxConnects

\* the link to d goes down in this step (by the peer or by disconnect())
LinkDrops(d) == link[d] /\ ~link'[d] /\ ~Restart

\* a transport call awaited by connectToSensor(d) inside its try block fails
\* in this step, and the catch block runs
ConnectFails(d) ==
    /\ opQueue # <<>>
    /\ Head(opQueue).dev = d
    /\ Head(opQueue).cont \in ConnectConts \ {"connect.syncClock"}
    /\ Resolve(FALSE)

DisconnectReturns ==
    /\ opQueue # <<>>
    /\ IsDisconnect(Head(opQueue))
    /\ \A i \in 1..Len(opQueue') : ~IsDisconnect(opQueue'[i])

\* C8: when disconnect() returns for an identity whose connection is
\* established (connected, linked, handshake over), whether its transport calls
\* succeeded or not, no identity is connected, the record is idle and scanning
\* is on.
C8_DisconnectAlwaysIdle ==
    [][\A d \in Devices :
          (/\ DisconnectReturns
           /\ Head(opQueue).dev = d
           /\ connectedDeviceId = d
           /\ link[d]
           /\ deviceMap[d].status = "connected"
           /\ Connecting(d) = {}) =>
              /\ connectedDeviceId' = NoDevice
              /\ deviceMap'[d].status = "idle"
              /\ isScanning']_vars

\* C9: the sequence number that a request-data-since command to the Active
\* identity carries is the watermark store's value for that identity.
C9_RequestCarriesWatermark ==
    [][\A d \in Devices, n \in CallerIds :
          (Active(d) /\ RequestData(d, n)) =>
              FrameParam(EncodeRequestData(n)) = deviceSettingsMap[d]]_vars

\* C10: a data notification that is not JSON changes neither the connection
\* (connected identity, link, subscriptions) nor any record nor the watermark
\* store, so that the next well-formed notification is ingested.
C10_MalformedDiscarded ==
    [][\A d \in Devices :
          DataNotification(d, Malformed) =>
              /\ connectedDeviceId' = connectedDeviceId
              /\ radioVars' = radioVars
              /\ deviceMap' = deviceMap
              /\ storeVars' = storeVars
              /\ opQueue' = opQueue]_vars

\* a measurement was ingested after a malformed frame was dropped in the session
C10_Witness ==
    \E d \in Devices :
        /\ link[d]
        /\ "data" \in subs[d]
        /\ connectedDeviceId = d
        /\ discardedAt[d] >= 0
        /\ Len(deviceMap[d].sensorData) > discardedAt[d]

\* the last call handed to the transport in this step awaits in cont
Issued(cont) == opQueue' # <<>> /\ opQueue'[Len(opQueue')].cont \in cont

\* C11: startScan() while scanning and stopScan() while not scanning change
\* nothing (no scan loop, no timer, no state), and getScanningStatus() turns
\* true only in a step that begins a scan loop and false only in a step that
\* runs stopScan() (timer handle cleared, stopLEScan issued).
C11_ScanIdempotent ==
    [][/\ (getScanningStatus /\ StartScan) => vars' = vars
       /\ (~getScanningStatus /\ StopScan) => vars' = vars
       /\ (~getScanningStatus /\ getScanningStatus') => Issued({"scanLoop"})
       /\ (getScanningStatus /\ ~getScanningStatus') =>
              scanTimeout' = Null /\ Issued({"stopScan", "connect.stopScan"})]_vars

\* scanning, one burst open with its timer pending: startScan() can be called again
C11_Witness ==
    /\ getScanningStatus
    /\ listening
    /\ \E i \in TimerIds : timers[i] = "burst" /\ scanTimeout = i
    /\ opQueue = <<>>

\* C12: once stopScan() has run no scan-burst timer is pending (a continuation
\* of the stopped loop schedules none), and at most one scan loop (a pending
\* timer, or a requestLEScan/stopLEScan awaited by the loop) exists at any time.
C12_OneScanLoop ==
    /\ ~isScanning => \A i \in TimerIds : timers[i] = "none"
    /\ LoopCount <= 1

\* scanLoop's catch block has called stopScan(), whose stopLEScan is awaited
\* (under SpecRecover nothing else calls stopScan() on its own)
ScanBurstFailed == \E i \in 1..Len(opQueue) : opQueue[i].cont = "stopScan"

\* a frame that is not JSON was dropped in the current session of some identity
DecodeFailed == \E d \in Devices : discardedAt[d] >= 0

\* no identity is connecting or connected, and scanning is on
IdleAndScanning ==
    /\ connectedDeviceId = NoDevice
    /\ \A d \in Devices : Connecting(d) = {}
    /\ isScanning

C14_ConnectFailureCleansUp ==
    [][\A d \in Devices :
          ConnectFails(d) =>
              /\ connectedDeviceId' = NoDevice
              /\ deviceMap'[d].status = "idle"
              /\ subs'[d] = {}
              /\ ~link'[d]]_vars

\* C15: when the data notification callback has finished, the stored watermark
\* is not behind the watermark in memory: whenever an event is processed, the
\* stored value of every known identity is at least its record's watermark.
C15_DurableNotBehind ==
    \A d \in Devices :
        deviceMap[d] # NoRecord => DurableGet(d) >= deviceMap[d].lastKnownMeasureCount

C17_ConnectedOnlyAfterHandshake ==
    \A d \in Devices : deviceMap[d].status = "connected" => Connecting(d) = {}

\* the transport carries out a command write to d in this step
CommandWritten(d) ==
    /\ opQueue # <<>>
    /\ Head(opQueue).cont \in CommandConts
    /\ Head(opQueue).dev = d
    /\ Resolve(TRUE)

\* C18: a command (request-data-since, start-collecting, stop-collecting) is
\* written to the command characteristic of d only while the connection to d
\* is Active.
C18_CommandsOnlyWhileActive ==
    [][\A d \in Devices : CommandWritten(d) => Active(d)]_vars

\* connectToSensor(d) is past "await this.stopScan()": the transport is carrying
\* out the connect or a call of the handshake, or the connection is established
PastStopScan(d) ==
    \/ /\ opQueue # <<>>
       /\ Head(opQueue).dev = d
       /\ Head(opQueue).cont \in ConnectConts \ {"connect.stopScan"}
    \/ connectedDeviceId = d /\ link[d]

\* C19: while the transport connects to d, through the handshake and while d
\* is connected, no scan burst is open (the transport is not listening for
\* advertisements), whatever the scan loop's timers and startScan() calls do.
C19_NoBurstWhileConnecting ==
    \A d \in Devices : PastStopScan(d) => ~listening

\* C20: the published identity and the statuses agree: the record of the
\* connected identity has status connected, and at most one record has status
\* processing or connected.
C20_IdentityAgreesWithStatus ==
    /\ \A d \in Devices : connectedDeviceId = d => deviceMap[d].status = "connected"
    /\ Cardinality({d \in Devices : deviceMap[d].status \in {"processing", "connected"}}) <= 1

\* nothing scans and nothing is connected
Quiet ==
    /\ ~isScanning
    /\ \A i \in TimerIds : timers[i] = "none"
    /\ connectedDeviceId = NoDevice
    /\ \A d \in Devices : ~link[d]

\* C21: once ngOnDestroy has run, with or without a connection, the service
\* reaches, and from then on stays in, a state where isScanning is false, no
\* scan-burst timer is pending and no connection is active.
C21_TeardownQuiesces == [](destroyed => <>[]Quiet)

====
